---- MODULE Spec2Model ----
(***************************************************************************)
(* The step-sequencing engine and replay state machine of the RAG pipeline *)
(* explorer (src/App.tsx), with the two asynchronous collaborators of the  *)
(* App component (text generation, video generation) as environment        *)
(* actions.                                                                *)
(*                                                                         *)
(* Conventions: a JavaScript array is a TLA+ sequence, so the element at   *)
(* JavaScript index i is the element i + 1 of the sequence.  null of a     *)
(* string-valued state is the string "null"; null of an object-valued      *)
(* state (animatingEdge, inspectorData, a step's optional edge) is the     *)
(* empty tuple.                                                            *)
(***************************************************************************)
EXTENDS Integers, Sequences, FiniteSets, TLC

Null == "null"
None == << >>

\* An edge {from, to}.
Edge(from, to) == <<from, to>>

\* An inspector payload: its title, its visualType and the values the
\* function's arguments put into its description and data.
Inspector(title, visualType, params) ==
    <<[title |-> title, visualType |-> visualType, params |-> params]>>

Step(stepId, node, edge, logLine, inspector) ==
    [stepId |-> stepId, node |-> node, edge |-> edge, log |-> logLine,
     inspectorData |-> inspector]

BoolStr(b) == IF b THEN "true" ELSE "false"

----------------------------------------------------------------------------
(* The step lists.                                                         *)

TENANTS == <<"T-800", "Cyberdyne", "Massive Dynamic", "Acme Corp">>

getIngestionSteps(tenantId) ==
    << Step(0, "source", None,
            "Source: Detecting changes for Tenant " \o tenantId,
            Inspector("Modular RAG Ingestion", Null, <<tenantId>>)),
       Step(1, "kafka", Edge("source", "kafka"),
            "Kafka: Buffering event stream",
            Inspector("Backpressure Handling", Null, <<tenantId>>)),
       Step(2, "flink", Edge("kafka", "flink"),
            "Flink: Cleaning & Chunking",
            Inspector("Text Chunking", Null, << >>)),
       Step(3, "embedding", Edge("flink", "embedding"),
            "Embedding: Generating Dense Vectors",
            Inspector("Dense Embeddings (E5/Gecko)", Null, << >>)),
       Step(4, "vector_db", Edge("embedding", "vector_db"),
            "Vector DB: Indexing (HNSW) for " \o tenantId,
            Inspector("HNSW Indexing", Null, <<tenantId>>)) >>

baseSteps(tenantId, isRedisHit) ==
    << Step(0, "user", None,
            "User (" \o tenantId \o "): Submitting query",
            Inspector("User Input", Null, <<tenantId>>)),
       Step(1, "redis", Edge("user", "redis"),
            "Redis: Checking Hot Cache",
            Inspector("Cache Check (Layer 1)", Null,
                      <<BoolStr(isRedisHit), tenantId>>)) >>

redisHitSteps ==
    << Step(2, "user", Edge("redis", "user"),
            "User: Received Cached Response",
            Inspector("Response Delivered", Null, << >>)) >>

retrievalSteps(tenantId) ==
    << Step(2, "postgres", Edge("redis", "postgres"),
            "Postgres: Loading Long-term History",
            Inspector("Permanent Storage (Layer 2)", Null, << >>)),
       Step(3, "router", Edge("redis", "router"),
            "Router: Analyzing Intent",
            Inspector("Semantic Router (Classification)", Null, << >>)),
       Step(4, "retriever", Edge("router", "retriever"),
            "Retriever: Generating HyDE Document",
            Inspector("HyDE Strategy", Null, <<tenantId>>)),
       Step(5, "embedding", Edge("retriever", "embedding"),
            "Embedding: Vectorizing Query",
            Inspector("Query Embedding", Null, << >>)),
       Step(6, "vector_db", Edge("embedding", "vector_db"),
            "Vector DB: Search",
            Inspector("Hybrid Search", Null, <<tenantId>>)),
       Step(7, "reranker", Edge("vector_db", "reranker"),
            "Reranker: Filtering",
            Inspector("Cross-Encoder Re-ranking", "ranking", <<tenantId>>)),
       Step(8, "llm", Edge("reranker", "llm"),
            "LLM: Generating Initial Draft",
            Inspector("LLM Generation Start", Null, << >>)) >>

flareSteps(isFlareEnabled) ==
    IF isFlareEnabled
    THEN << Step(9, "retriever", Edge("llm", "retriever"),
                 "FLARE: Low Confidence Detected!",
                 Inspector("FLARE Triggered (Active Retrieval)", Null, << >>)),
            Step(10, "vector_db", Edge("retriever", "vector_db"),
                 "FLARE: Targeted Retrieval",
                 Inspector("Targeted Look-up", Null, << >>)),
            Step(11, "llm", Edge("vector_db", "llm"),
                 "LLM: Resuming Generation",
                 Inspector("Generation Resumed", Null, << >>)) >>
    ELSE << >>

\* A slip in nextStepId: the + 1 is missing.
nextStepIdNoIncrement(isFlareEnabled) == 8 + (IF isFlareEnabled THEN 3 ELSE 0)

\* const nextStepId (src/App.tsx 198)
nextStepId(isFlareEnabled) == 8 + (IF isFlareEnabled THEN 3 ELSE 0) + 1

finalSteps(isFlareEnabled) ==
    << Step(nextStepId(isFlareEnabled), "postgres", Edge("llm", "postgres"),
            "Postgres: Archiving",
            Inspector("Persistent Archive", Null, << >>)),
       Step(nextStepId(isFlareEnabled) + 1, "user", Edge("llm", "user"),
            "User: Final Response",
            Inspector("Final Output", Null, << >>)) >>

\* A slip in getQuerySteps: the Redis hit short-circuit is skipped when the
\* active-retrieval flag is on.
getQueryStepsFlareOverHit(tenantId, isRedisHit, isFlareEnabled) ==
    IF isRedisHit /\ ~isFlareEnabled
    THEN baseSteps(tenantId, isRedisHit) \o redisHitSteps
    ELSE baseSteps(tenantId, isRedisHit) \o retrievalSteps(tenantId)
         \o flareSteps(isFlareEnabled) \o finalSteps(isFlareEnabled)

\* A slip in getQuerySteps: the active-retrieval steps are spread in before
\* the retrieval steps.
getQueryStepsFlareEarly(tenantId, isRedisHit, isFlareEnabled) ==
    IF isRedisHit
    THEN baseSteps(tenantId, isRedisHit) \o redisHitSteps
    ELSE baseSteps(tenantId, isRedisHit) \o flareSteps(isFlareEnabled)
         \o retrievalSteps(tenantId) \o finalSteps(isFlareEnabled)

getQuerySteps(tenantId, isRedisHit, isFlareEnabled) ==
    IF isRedisHit
    THEN baseSteps(tenantId, isRedisHit) \o redisHitSteps
    ELSE baseSteps(tenantId, isRedisHit) \o retrievalSteps(tenantId)
         \o flareSteps(isFlareEnabled) \o finalSteps(isFlareEnabled)

----------------------------------------------------------------------------
(* The diagram (src/unnamed/part_000).                                     *)

Node(id, x, y) == [id |-> id, x |-> x, y |-> y]

NODES ==
    << Node("source", 50, 350), Node("kafka", 250, 350),
       Node("flink", 450, 350), Node("embedding", 650, 350),
       Node("vector_db", 850, 350),
       Node("user", 50, 100), Node("redis", 200, 100),
       Node("postgres", 200, 225),
       Node("router", 350, 100), Node("sql_db", 350, 225),
       Node("retriever", 500, 100), Node("reranker", 650, 100),
       Node("llm", 850, 100) >>

EDGES ==
    << Edge("source", "kafka"), Edge("kafka", "flink"),
       Edge("flink", "embedding"), Edge("embedding", "vector_db"),
       Edge("user", "redis"), Edge("redis", "postgres"),
       Edge("postgres", "redis"),
       Edge("redis", "router"), Edge("router", "retriever"),
       Edge("router", "sql_db"),
       Edge("retriever", "embedding"), Edge("embedding", "retriever"),
       Edge("retriever", "vector_db"), Edge("vector_db", "reranker"),
       Edge("reranker", "llm"),
       Edge("sql_db", "llm"),
       Edge("llm", "retriever"),
       Edge("llm", "postgres"), Edge("llm", "user") >>

\* PipelineVisualizer's isAnimating for the entry edge of EDGES
\* (src/components/PipelineVisualizer.tsx 429): optional chaining on a null
\* animatingEdge gives undefined, which equals no endpoint.
isAnimating(edge, animating) ==
    /\ animating # None
    /\ animating[1] = edge[1]
    /\ animating[2] = edge[2]

----------------------------------------------------------------------------
(* Bounds of the model and the inputs the events draw from.                *)

\* startSimulation calls in one behaviour.
MaxRuns == 2
\* Clicks on the Generate Video button in one behaviour.
MaxVideoClicks == 2

Modes == {"ingestion", "query"}
Tenants == {TENANTS[i] : i \in DOMAIN TENANTS}
\* Texts typed into the query input: the initial text and one other.
Queries == {"What is the vacation policy?", "How many sick days?"}
\* Nodes the user clicks in the diagram.
ClickNodes == {"sql_db"}
\* What generateVeoVideo resolves to when it produces a video.
VideoUrls == {"blob:rerank-video"}
\* Nodes dragged away from their place in one behaviour.
MaxMoved == 1
\* The container's getBoundingClientRect(); NODES is laid out for 1200x500.
ContainerRect == [left |-> 0, top |-> 0, width |-> 1200, height |-> 500]
\* Where in the node's rectangle a mousedown lands: its corner, its centre.
ClickOffsets == {<<0, 0>>, <<40, 40>>}
\* clientX, clientY of a mouse event over the container: its corners and a
\* point inside.
MousePoints == {<<0, 0>>, <<300, 200>>, <<1200, 500>>}

----------------------------------------------------------------------------
VARIABLES
    \* the state of the App component (useState, src/App.tsx 224-242)
    activeNode, activeFlow, consoleLogs, userQuery, selectedTenant,
    simulateRedisHit, enableFlare, simulationMode, currentStepIndex,
    animatingEdge, inspectorData, rerankVideoUrl, isGeneratingRerankVideo,
    \* the environment
    keyChecks,        \* handleGenerateRerankVideo calls awaiting the key check
    veoPending,       \* generateVeoVideo requests in flight
    geminiPending,    \* generateRAGResponse requests in flight
    \* history of the current run, kept for the properties
    runCount,         \* startSimulation calls so far
    videoClicks,      \* clicks on Generate Video so far
    runStart,         \* the configuration startSimulation read
    nextCount,        \* Next Step events of the current run
    shown,            \* what advanceStep displayed in the current run, in order
    geminiCalls,      \* callGemini invocations of the current run
    \* the state of the PipelineVisualizer component
    \* (src/components/PipelineVisualizer.tsx 324-326)
    nodes, dragging, isDraggingRef

appVars == <<activeNode, activeFlow, consoleLogs, userQuery, selectedTenant,
             simulateRedisHit, enableFlare, simulationMode, currentStepIndex,
             animatingEdge, inspectorData, rerankVideoUrl,
             isGeneratingRerankVideo>>
configVars == <<userQuery, selectedTenant, simulateRedisHit, enableFlare>>
replayVars == <<simulationMode, currentStepIndex, activeNode, animatingEdge,
                inspectorData>>
envVars == <<keyChecks, veoPending, geminiPending>>
histVars == <<runCount, videoClicks, runStart, nextCount, shown, geminiCalls>>
dragVars == <<nodes, dragging, isDraggingRef>>
vars == <<appVars, envVars, histVars, dragVars>>

Config == [tenant |-> selectedTenant, redisHit |-> simulateRedisHit,
           flare |-> enableFlare, query |-> userQuery]

----------------------------------------------------------------------------
(* The handlers of the App component, as functions on its state.           *)

\* log (src/App.tsx 244-246): prev => [`> ${msg}`, ...prev.slice(0, 8)]
slice(seq, from, to) ==
    SubSeq(seq, from + 1, IF to < Len(seq) THEN to ELSE Len(seq))

\* A slip in log: the slice keeps nine of the previous lines.
logKeepsNine(prev, msg) == <<"> " \o msg>> \o slice(prev, 0, 9)

log(prev, msg) == <<"> " \o msg>> \o slice(prev, 0, 8)

toUpperCase(mode) == IF mode = "ingestion" THEN "INGESTION" ELSE "QUERY"

\* The step list advanceStep and the step counter compute for a mode.
stepsOf(mode, tenant, redisHit, flare) ==
    IF mode = "ingestion"
    THEN getIngestionSteps(tenant)
    ELSE getQuerySteps(tenant, redisHit, flare)

\* A slip in advanceStep: completion clears activeFlow as a reset does.
completeSimulationClearsFlow(s) ==
    [s EXCEPT !.consoleLogs = log(@, "Simulation Complete."),
              !.simulationMode = Null,
              !.activeFlow = Null,
              !.animatingEdge = None]

\* advanceStep past the end of the list (src/App.tsx 269-274)
completeSimulation(s) ==
    [s EXCEPT !.consoleLogs = log(@, "Simulation Complete."),
              !.simulationMode = Null,
              !.animatingEdge = None]

\* advanceStep on the step at stepIdx (src/App.tsx 276-292); callsGemini is
\* the condition of its callGemini invocation.
showStep(step, stepIdx, callsGemini, s) ==
    [s EXCEPT !.currentStepIndex = stepIdx,
              !.activeNode = step.node,
              !.animatingEdge = step.edge,
              !.consoleLogs = log(@, step.log),
              !.inspectorData = step.inspectorData,
              !.calls = IF callsGemini THEN @ + 1 ELSE @,
              !.shown = Append(@, [index |-> stepIdx,
                                   node |-> step.node,
                                   edge |-> step.edge,
                                   log |-> step.log,
                                   inspectorData |-> step.inspectorData])]

\* A slip in advanceStep: completion does not end the run.
advanceStepNeverEnds(mode, stepIdx, c, s) ==
    LET steps == stepsOf(mode, c.tenant, c.redisHit, c.flare) IN
    IF stepIdx >= Len(steps)
    THEN [s EXCEPT !.consoleLogs = log(@, "Simulation Complete."),
                   !.animatingEdge = None]
    ELSE showStep(steps[stepIdx + 1], stepIdx,
                  mode = "query" /\ steps[stepIdx + 1].node = "llm"
                  /\ ~c.redisHit, s)

\* A slip in advanceStep: the list is built for the first tenant of TENANTS,
\* not for the selected one.
advanceStepFirstTenant(mode, stepIdx, c, s) ==
    LET steps == stepsOf(mode, TENANTS[1], c.redisHit, c.flare) IN
    IF stepIdx >= Len(steps)
    THEN completeSimulation(s)
    ELSE showStep(steps[stepIdx + 1], stepIdx,
                  mode = "query" /\ steps[stepIdx + 1].node = "llm"
                  /\ ~c.redisHit, s)

\* A slip in advanceStep: the test of the step's node is missing from the
\* condition of callGemini.
advanceStepCallsAtEveryStep(mode, stepIdx, c, s) ==
    LET steps == stepsOf(mode, c.tenant, c.redisHit, c.flare) IN
    IF stepIdx >= Len(steps)
    THEN completeSimulation(s)
    ELSE showStep(steps[stepIdx + 1], stepIdx,
                  mode = "query" /\ ~c.redisHit, s)

\* What advanceStep(mode, stepIdx) (src/App.tsx 264-293) makes of the state
\* s (the fields it may set; calls: the callGemini invocations it makes;
\* shown: the steps displayed), reading the configuration c of the render it
\* runs in.
advanceStep(mode, stepIdx, c, s) ==
    LET steps == stepsOf(mode, c.tenant, c.redisHit, c.flare) IN
    IF stepIdx >= Len(steps)
    THEN completeSimulation(s)
    ELSE showStep(steps[stepIdx + 1], stepIdx,
                  mode = "query" /\ steps[stepIdx + 1].node = "llm"
                  /\ ~c.redisHit, s)

\* A slip in startSimulation: the two [CONFIG] lines are logged in the other
\* order.
startSimulationFlareFirst(mode, c, s) ==
    LET l1 == log(<< >>, "Starting " \o toUpperCase(mode)
                         \o " pipeline simulation for " \o c.tenant \o "...")
        l2 == IF mode = "query" /\ c.flare
              THEN log(l1, "[CONFIG] FLARE Active Retrieval: ON") ELSE l1
        l3 == IF mode = "query" /\ c.redisHit
              THEN log(l2, "[CONFIG] Redis Cache Hit Simulation: ON") ELSE l2
    IN  advanceStep(mode, 0, c,
                    [s EXCEPT !.simulationMode = mode,
                              !.currentStepIndex = -1,
                              !.activeFlow = mode,
                              !.consoleLogs = l3,
                              !.inspectorData = None,
                              !.rerankVideoUrl = Null])

\* startSimulation (src/App.tsx 248-262)
startSimulation(mode, c, s) ==
    LET l1 == log(<< >>, "Starting " \o toUpperCase(mode)
                         \o " pipeline simulation for " \o c.tenant \o "...")
        l2 == IF mode = "query" /\ c.redisHit
              THEN log(l1, "[CONFIG] Redis Cache Hit Simulation: ON") ELSE l1
        l3 == IF mode = "query" /\ c.flare
              THEN log(l2, "[CONFIG] FLARE Active Retrieval: ON") ELSE l2
    IN  advanceStep(mode, 0, c,
                    [s EXCEPT !.simulationMode = mode,
                              !.currentStepIndex = -1,
                              !.activeFlow = mode,
                              !.consoleLogs = l3,
                              !.inspectorData = None,
                              !.rerankVideoUrl = Null])

\* A slip in handleNextStep: it advances by two.
handleNextStepSkips(c, s) ==
    IF s.simulationMode = Null
    THEN s
    ELSE advanceStep(s.simulationMode, s.currentStepIndex + 2, c, s)

\* A slip in handleNextStep: the guard on simulationMode is missing.
handleNextStepNoGuard(c, s) ==
    advanceStep(s.simulationMode, s.currentStepIndex + 1, c, s)

\* handleNextStep (src/App.tsx 301-304)
handleNextStep(c, s) ==
    IF s.simulationMode = Null
    THEN s
    ELSE advanceStep(s.simulationMode, s.currentStepIndex + 1, c, s)

\* A slip in resetSimulation: it clears the log as startSimulation does.
resetSimulationClearsLog(s) ==
    [s EXCEPT !.simulationMode = Null,
              !.activeFlow = Null,
              !.activeNode = Null,
              !.animatingEdge = None,
              !.currentStepIndex = -1,
              !.inspectorData = None,
              !.rerankVideoUrl = Null,
              !.consoleLogs = log(<< >>, "Reset.")]

\* A cancellation the code does not have: resetSimulation also ends the
\* generating state.
resetSimulationStopsVideo(s) ==
    [s EXCEPT !.simulationMode = Null,
              !.activeFlow = Null,
              !.activeNode = Null,
              !.animatingEdge = None,
              !.currentStepIndex = -1,
              !.inspectorData = None,
              !.rerankVideoUrl = Null,
              !.isGeneratingRerankVideo = FALSE,
              !.consoleLogs = log(@, "Reset.")]

\* resetSimulation (src/App.tsx 306-315)
resetSimulation(s) ==
    [s EXCEPT !.simulationMode = Null,
              !.activeFlow = Null,
              !.activeNode = Null,
              !.animatingEdge = None,
              !.currentStepIndex = -1,
              !.inspectorData = None,
              !.rerankVideoUrl = Null,
              !.consoleLogs = log(@, "Reset.")]

\* handleGenerateRerankVideo from the end of the key check to the request
\* (src/App.tsx 327-334)
beginRerankVideo(s) ==
    [s EXCEPT !.isGeneratingRerankVideo = TRUE,
              !.rerankVideoUrl = Null,
              !.consoleLogs =
                  log(@, "Generating Reranker visualization video with Veo...")]

\* handleGenerateRerankVideo from the end of the request (src/App.tsx
\* 334-345): the request resolved to videoUrl (a URL or null), or threw.
endRerankVideo(threw, videoUrl, s) ==
    LET t == IF threw
             THEN [s EXCEPT !.consoleLogs = log(@,
                      "Error generating rerank video. Check API Key permissions.")]
             ELSE IF videoUrl # Null
             THEN [s EXCEPT !.rerankVideoUrl = videoUrl,
                            !.consoleLogs =
                                log(@, "Rerank visualization generated.")]
             ELSE [s EXCEPT !.consoleLogs =
                                log(@, "Failed to generate rerank video.")]
    IN  [t EXCEPT !.isGeneratingRerankVideo = FALSE]

\* A cancellation the code does not have: a response that arrives when no
\* simulation runs is dropped.
endCallGeminiIfRunning(response, s) ==
    IF s.simulationMode = Null
    THEN s
    ELSE [s EXCEPT !.consoleLogs =
                       log(@, "[Real Gemini Response]: " \o response)]

\* callGemini after its await (src/App.tsx 298)
endCallGemini(response, s) ==
    [s EXCEPT !.consoleLogs = log(@, "[Real Gemini Response]: " \o response)]

\* What generateRAGResponse(userQuery, context) may resolve to.
generateRAGResponse == {"You have 20 days of vacation."}

\* The Generate Video button is rendered (src/components/DataInspector.tsx
\* 18, 28, 51).
GenerateVideoShown ==
    /\ inspectorData # None
    /\ inspectorData[1].visualType = "ranking"
    /\ rerankVideoUrl = Null
    /\ ~isGeneratingRerankVideo

\* Math.max and Math.min
max(a, b) == IF a > b THEN a ELSE b
min(a, b) == IF a < b THEN a ELSE b

\* A slip in handleMouseMove: the map has no test of the node's id.
dragToAll(prev, id, newX, newY) ==
    [i \in DOMAIN prev |-> [prev[i] EXCEPT !.x = newX, !.y = newY]]

\* The update of handleMouseMove (src/components/PipelineVisualizer.tsx
\* 346): prev.map(n => n.id === dragging.id ? {...n, x: newX, y: newY} : n)
dragTo(prev, id, newX, newY) ==
    [i \in DOMAIN prev |->
        IF prev[i].id = id
        THEN [prev[i] EXCEPT !.x = newX, !.y = newY]
        ELSE prev[i]]

\* handleMouseMove (src/components/PipelineVisualizer.tsx 338-347) during a
\* drag d, for a mouse event at clientX, clientY.
handleMouseMove(clientX, clientY, d, prev) ==
    LET newX == clientX - ContainerRect.left - d.offsetX - 40
        newY == clientY - ContainerRect.top - d.offsetY - 40
    IN  dragTo(prev, d.id,
               max(-20, min(newX, ContainerRect.width - 60)),
               max(-20, min(newY, ContainerRect.height - 60)))

\* nodes.find(n => n.id === id) (src/components/PipelineVisualizer.tsx
\* 426-427): the nodes with the id, of which find takes the first.
find(ns, id) == {i \in DOMAIN ns : ns[i].id = id}

----------------------------------------------------------------------------
(* The state machine.                                                      *)

\* The state the handlers above work on; calls counts from 0 in each event.
State(history) ==
    [simulationMode |-> simulationMode, currentStepIndex |-> currentStepIndex,
     activeFlow |-> activeFlow, activeNode |-> activeNode,
     animatingEdge |-> animatingEdge, consoleLogs |-> consoleLogs,
     inspectorData |-> inspectorData, rerankVideoUrl |-> rerankVideoUrl,
     isGeneratingRerankVideo |-> isGeneratingRerankVideo,
     calls |-> 0, shown |-> history]

\* The render after an event: the state is r, and every callGemini
\* invocation of the event has sent one request with the query it read.
Render(r) ==
    /\ simulationMode' = r.simulationMode
    /\ currentStepIndex' = r.currentStepIndex
    /\ activeFlow' = r.activeFlow
    /\ activeNode' = r.activeNode
    /\ animatingEdge' = r.animatingEdge
    /\ consoleLogs' = r.consoleLogs
    /\ inspectorData' = r.inspectorData
    /\ rerankVideoUrl' = r.rerankVideoUrl
    /\ isGeneratingRerankVideo' = r.isGeneratingRerankVideo
    /\ shown' = r.shown

\* callGemini up to its await (src/App.tsx 295-297), n times
callGemini(n) == geminiPending' = geminiPending + n

Init ==
    /\ activeNode = Null
    /\ activeFlow = Null
    /\ consoleLogs = << >>
    /\ userQuery = "What is the vacation policy?"
    /\ selectedTenant = "T-800"
    /\ simulateRedisHit = FALSE
    /\ enableFlare = FALSE
    /\ simulationMode = Null
    /\ currentStepIndex = -1
    /\ animatingEdge = None
    /\ inspectorData = None
    /\ rerankVideoUrl = Null
    /\ isGeneratingRerankVideo = FALSE
    /\ keyChecks = 0
    /\ veoPending = 0
    /\ geminiPending = 0
    /\ runCount = 0
    /\ videoClicks = 0
    /\ runStart = [mode |-> Null, config |-> Config]
    /\ nextCount = 0
    /\ shown = << >>
    /\ geminiCalls = 0
    /\ nodes = NODES
    /\ dragging = None
    /\ isDraggingRef = FALSE

\* The tenant select (src/App.tsx 365-372): disabled during a run.
SelectTenant ==
    /\ simulationMode = Null
    /\ \E t \in Tenants : selectedTenant' = t
    /\ UNCHANGED <<activeNode, activeFlow, consoleLogs, userQuery,
                   simulateRedisHit, enableFlare, simulationMode,
                   currentStepIndex, animatingEdge, inspectorData,
                   rerankVideoUrl, isGeneratingRerankVideo>>
    /\ UNCHANGED <<envVars, histVars>>
    /\ UNCHANGED dragVars

\* A slip in the query input: it is not disabled during a run (its onChange
\* has no guard of its own).
TypeQueryDuringRun ==
    /\ \E q \in Queries : userQuery' = q
    /\ UNCHANGED <<activeNode, activeFlow, consoleLogs, selectedTenant,
                   simulateRedisHit, enableFlare, simulationMode,
                   currentStepIndex, animatingEdge, inspectorData,
                   rerankVideoUrl, isGeneratingRerankVideo>>
    /\ UNCHANGED <<envVars, histVars>>
    /\ UNCHANGED dragVars

\* The query input (src/App.tsx 394-401): disabled during a run.
TypeQuery ==
    /\ simulationMode = Null
    /\ \E q \in Queries : userQuery' = q
    /\ UNCHANGED <<activeNode, activeFlow, consoleLogs, selectedTenant,
                   simulateRedisHit, enableFlare, simulationMode,
                   currentStepIndex, animatingEdge, inspectorData,
                   rerankVideoUrl, isGeneratingRerankVideo>>
    /\ UNCHANGED <<envVars, histVars>>
    /\ UNCHANGED dragVars

\* The Redis Hit button (src/App.tsx 408-420)
ToggleRedisHit ==
    /\ simulationMode = Null
    /\ simulateRedisHit' = ~simulateRedisHit
    /\ UNCHANGED <<activeNode, activeFlow, consoleLogs, userQuery,
                   selectedTenant, enableFlare, simulationMode,
                   currentStepIndex, animatingEdge, inspectorData,
                   rerankVideoUrl, isGeneratingRerankVideo>>
    /\ UNCHANGED <<envVars, histVars>>
    /\ UNCHANGED dragVars

\* The FLARE Mode button (src/App.tsx 422-434): disabled during a run and
\* while the Redis Hit toggle is on.
ToggleFlare ==
    /\ simulationMode = Null
    /\ ~simulateRedisHit
    /\ enableFlare' = ~enableFlare
    /\ UNCHANGED <<activeNode, activeFlow, consoleLogs, userQuery,
                   selectedTenant, simulateRedisHit, simulationMode,
                   currentStepIndex, animatingEdge, inspectorData,
                   rerankVideoUrl, isGeneratingRerankVideo>>
    /\ UNCHANGED <<envVars, histVars>>
    /\ UNCHANGED dragVars

\* The Ingestion and Start Query buttons (src/App.tsx 439-455), rendered
\* while no simulation runs; the user presses one of those in modes.
StartSimulation(modes) ==
    /\ simulationMode = Null
    /\ runCount < MaxRuns
    /\ \E mode \in modes :
          LET r == startSimulation(mode, Config, State(<< >>)) IN
          /\ Render(r)
          /\ callGemini(r.calls)
          /\ geminiCalls' = r.calls
          /\ runStart' = [mode |-> mode, config |-> Config]
    /\ runCount' = runCount + 1
    /\ nextCount' = 0
    /\ UNCHANGED <<configVars, keyChecks, veoPending, videoClicks>>
    /\ UNCHANGED dragVars

\* The Next Step button (src/App.tsx 458-463)
NextStep ==
    /\ LET r == handleNextStep(Config, State(shown)) IN
       /\ Render(r)
       /\ callGemini(r.calls)
       /\ geminiCalls' = geminiCalls + r.calls
    /\ nextCount' = IF simulationMode = Null THEN nextCount ELSE nextCount + 1
    /\ UNCHANGED <<configVars, keyChecks, veoPending, runCount, videoClicks,
                   runStart>>
    /\ UNCHANGED dragVars

\* The Reset button (src/App.tsx 464-470), rendered during a run.
Reset ==
    /\ simulationMode # Null
    /\ Render(resetSimulation(State(shown)))
    /\ UNCHANGED <<configVars, envVars, runCount,
                   videoClicks, runStart, nextCount, geminiCalls>>
    /\ UNCHANGED dragVars

\* A click on a node of the diagram (src/App.tsx 489), which
\* handleNodeClick passes on unless the mouse has moved in a drag since the
\* last mousedown (src/components/PipelineVisualizer.tsx 361-365), or on the
\* close button of the detail panel (src/App.tsx 525).
SelectNode ==
    /\ \E id \in ClickNodes \cup {Null} :
          /\ id = Null => activeNode # Null
          /\ id # Null => ~isDraggingRef
          /\ activeNode' = id
    /\ UNCHANGED <<activeFlow, consoleLogs, configVars, simulationMode,
                   currentStepIndex, animatingEdge, inspectorData,
                   rerankVideoUrl, isGeneratingRerankVideo>>
    /\ UNCHANGED <<envVars, histVars>>
    /\ UNCHANGED dragVars


\* The Generate Video button (src/App.tsx 318-334).  The handler reads
\* window.aistudio at each click: where it offers hasSelectedApiKey the
\* handler first awaits the key check, elsewhere it goes on at once.
ClickGenerateVideo ==
    /\ GenerateVideoShown
    /\ videoClicks < MaxVideoClicks
    /\ videoClicks' = videoClicks + 1
    /\ \E aistudio \in BOOLEAN :
          IF aistudio
          THEN /\ keyChecks' = keyChecks + 1
               /\ UNCHANGED <<appVars, veoPending, shown>>
          ELSE /\ Render(beginRerankVideo(State(shown)))
               /\ veoPending' = veoPending + 1
               /\ UNCHANGED <<configVars, keyChecks>>
    /\ UNCHANGED <<geminiPending, runCount, runStart, nextCount, geminiCalls>>
    /\ UNCHANGED dragVars

\* The key check of a handler is over (src/App.tsx 321-334).
KeyCheckDone ==
    /\ keyChecks > 0
    /\ keyChecks' = keyChecks - 1
    /\ Render(beginRerankVideo(State(shown)))
    /\ veoPending' = veoPending + 1
    /\ UNCHANGED <<configVars, geminiPending, runCount, videoClicks, runStart,
                   nextCount, geminiCalls>>
    /\ UNCHANGED dragVars

\* generateVeoVideo resolves to videoUrl (src/App.tsx 334-345).
VeoResolvesTo(videoUrl) ==
    /\ veoPending > 0
    /\ veoPending' = veoPending - 1
    /\ Render(endRerankVideo(FALSE, videoUrl, State(shown)))
    /\ UNCHANGED <<configVars, keyChecks, geminiPending, runCount,
                   videoClicks, runStart, nextCount, geminiCalls>>
    /\ UNCHANGED dragVars

\* generateVeoVideo resolves, to a URL or to null.
VeoResolves == \E videoUrl \in VideoUrls \cup {Null} : VeoResolvesTo(videoUrl)

\* generateVeoVideo throws (src/App.tsx 341-345).
VeoThrows ==
    /\ veoPending > 0
    /\ veoPending' = veoPending - 1
    /\ Render(endRerankVideo(TRUE, Null, State(shown)))
    /\ UNCHANGED <<configVars, keyChecks, geminiPending, runCount,
                   videoClicks, runStart, nextCount, geminiCalls>>
    /\ UNCHANGED dragVars

\* generateRAGResponse resolves (src/App.tsx 297-298).
GeminiResolves ==
    /\ geminiPending > 0
    /\ geminiPending' = geminiPending - 1
    /\ \E response \in generateRAGResponse :
          Render(endCallGemini(response, State(shown)))
    /\ UNCHANGED <<configVars, keyChecks, veoPending, runCount, videoClicks,
                   runStart, nextCount, geminiCalls>>
    /\ UNCHANGED dragVars

\* The nodes that are away from their place in NODES.
Moved == {i \in DOMAIN nodes : nodes[i] # NODES[i]}

\* A mousedown on a node (src/components/PipelineVisualizer.tsx 329-336).
MouseDown ==
    /\ \E i \in DOMAIN nodes, offset \in ClickOffsets :
          /\ Cardinality(Moved \ {i}) < MaxMoved
          /\ dragging' = <<[id |-> nodes[i].id, offsetX |-> offset[1],
                            offsetY |-> offset[2]]>>
    /\ isDraggingRef' = FALSE
    /\ UNCHANGED <<appVars, envVars, histVars, nodes>>

\* A mousemove over the container (src/components/PipelineVisualizer.tsx
\* 338-347); outside a drag handleMouseMove returns at once.
MouseMove ==
    /\ \E point \in MousePoints :
          IF dragging = None
          THEN UNCHANGED <<nodes, isDraggingRef>>
          ELSE /\ isDraggingRef' = TRUE
               /\ nodes' = handleMouseMove(point[1], point[2], dragging[1],
                                           nodes)
    /\ UNCHANGED <<appVars, envVars, histVars, dragging>>

\* A mouseup or mouseleave of the container (handleMouseUp,
\* src/components/PipelineVisualizer.tsx 349-351, 372-373) or a mouseup
\* anywhere in the window (handleGlobalMouseUp, 353-359): each sets
\* dragging to null.
MouseUp ==
    /\ dragging' = None
    /\ UNCHANGED <<appVars, envVars, histVars, nodes, isDraggingRef>>

----------------------------------------------------------------------------
(* Specifications.  Every line of the log records the order of the events  *)
(* before it, so each specification takes the replay events together with  *)
(* one group of the other events.                                          *)

ReplayEvents == StartSimulation(Modes) \/ NextStep \/ Reset

\* The replay under every configuration the controls can set; requests are
\* sent and stay unanswered.
Next ==
    \/ SelectTenant
    \/ TypeQuery
    \/ ToggleRedisHit
    \/ ToggleFlare
    \/ ReplayEvents
    \/ SelectNode

Spec == Init /\ [][Next]_vars

\* The replay with the responses of the text generation arriving.
NextGemini ==
    \/ ToggleRedisHit
    \/ ToggleFlare
    \/ ReplayEvents
    \/ GeminiResolves

GeminiSpec == Init /\ [][NextGemini]_vars

\* The replay with the video generation, under the initial configuration:
\* a query run, where the Generate Video button appears, and ingestion runs
\* after it.
NextVideo ==
    \/ StartSimulation(IF runCount = 0 THEN {"query"} ELSE {"ingestion"})
    \/ NextStep
    \/ Reset
    \/ ClickGenerateVideo
    \/ KeyCheckDone
    \/ VeoResolves
    \/ VeoThrows

VideoSpec == Init /\ [][NextVideo]_vars

\* The same, with Next Step pressed again and again for as long as a run
\* goes on.
LiveSpec == Init /\ [][NextGemini]_vars /\ WF_vars(NextStep)

\* The mouse on the diagram: drags and clicks, no replay.
NextDrag ==
    \/ MouseDown
    \/ MouseMove
    \/ MouseUp
    \/ SelectNode

DragSpec == Init /\ [][NextDrag]_vars

----------------------------------------------------------------------------
(* Properties.                                                             *)

Running == simulationMode # Null

\* The step list of a run that startSimulation started in mode under c.
RunSteps(mode, c) == stepsOf(mode, c.tenant, c.redisHit, c.flare)

\* What a replay in mode under c has displayed after k Next Step events.
Replay(mode, c, k) ==
    LET steps == RunSteps(mode, c)
        n == IF k + 1 < Len(steps) THEN k + 1 ELSE Len(steps)
    IN  [i \in 1..n |-> [index |-> i - 1, node |-> steps[i].node,
                         edge |-> steps[i].edge, log |-> steps[i].log,
                         inspectorData |-> steps[i].inspectorData]]

Last(seq) == seq[Len(seq)]

\* C1: the replay is a function of its inputs.  What a run has displayed
\* (index, node, edge, log line, inspector payload, in order) is determined
\* by the mode and configuration startSimulation read and by the number of
\* Next Step events since, and while the run goes on the state shows the
\* last of them: two replays with the same configuration and the same
\* Next Step events display the same sequence.
C1_ReplayDeterministic ==
    runCount > 0 =>
        /\ shown = Replay(runStart.mode, runStart.config, nextCount)
        /\ Running =>
              /\ currentStepIndex = Last(shown).index
              /\ animatingEdge = Last(shown).edge
              /\ inspectorData = Last(shown).inspectorData
              /\ consoleLogs[1] = "> " \o Last(shown).log
              /\ activeNode \in {Last(shown).node, Null} \cup ClickNodes

\* A query run under another tenant with active retrieval, ten steps in.
C1_Witness ==
    /\ simulationMode = "query"
    /\ selectedTenant = "Acme Corp"
    /\ enableFlare
    /\ nextCount = 9
    /\ activeNode = "retriever"

\* C2: in every step list of the current configuration the stepId of the
\* step at position i is i.
C2_StepIdsArePositions ==
    \A mode \in Modes :
        LET steps == stepsOf(mode, selectedTenant, simulateRedisHit, enableFlare)
        IN  \A i \in 1..Len(steps) : steps[i].stepId = i - 1

\* The last step of a query run with active retrieval is displayed.
C2_Witness ==
    /\ simulationMode = "query"
    /\ enableFlare
    /\ ~simulateRedisHit
    /\ currentStepIndex = 13

\* C3: the replay advances one step at a time.  During a run
\* currentStepIndex is the number of Next Step events of the run and lies
\* within the step list of the configuration, and the steps displayed are
\* steps 0, 1, 2, ... of the list, none skipped and none twice.
C3_OneStepAtATime ==
    /\ Running =>
          /\ currentStepIndex = nextCount
          /\ currentStepIndex \in 0..(Len(stepsOf(simulationMode,
                 selectedTenant, simulateRedisHit, enableFlare)) - 1)
          /\ Len(shown) = nextCount + 1
    /\ \A i \in 1..Len(shown) : shown[i].index = i - 1

\* Four Next Step events into a run.
C3_Witness == Running /\ nextCount = 4 /\ currentStepIndex = 4

\* The number of steps the claim gives for a run.
ClaimedSteps(mode, c) ==
    IF mode = "ingestion" THEN 5
    ELSE IF c.redisHit THEN 3
    ELSE IF c.flare THEN 14
    ELSE 11

\* The step that completes a run: the run ends and activeFlow stays.
Completes == Running /\ simulationMode' = Null /\ activeFlow' # Null

\* C4: every started simulation completes.  A run of n steps (5 for
\* ingestion, 3 for a cache-hit query, 11 for a cache-miss query, 14 with
\* active retrieval) goes on only while fewer than n Next Step events have
\* happened; the step that completes it is the n-th Next Step event, logs
\* 'Simulation Complete.' and sets animatingEdge to null; and with Next Step
\* pressed again and again a running simulation eventually stops running.
C4_EveryRunCompletes ==
    /\ [](Running =>
            /\ Len(RunSteps(runStart.mode, runStart.config))
                  = ClaimedSteps(runStart.mode, runStart.config)
            /\ nextCount < ClaimedSteps(runStart.mode, runStart.config))
    /\ [][Completes =>
            /\ nextCount' = ClaimedSteps(runStart.mode, runStart.config)
            /\ nextCount' = nextCount + 1
            /\ consoleLogs'[1] = "> Simulation Complete."
            /\ animatingEdge' = None]_vars
    /\ (Running ~> ~Running)

\* A cache-miss query run with active retrieval completed by its 14th Next
\* Step event.
C4_Witness ==
    /\ ~Running
    /\ activeFlow = "query"
    /\ runStart.config.flare
    /\ ~runStart.config.redisHit
    /\ nextCount = 14
    /\ consoleLogs[1] = "> Simulation Complete."

Nodes(steps) == [i \in 1..Len(steps) |-> steps[i].node]

\* C5: with the cache-hit flag on a query run skips retrieval and
\* generation.  Whatever the active-retrieval flag, the query list is the
\* three steps user, redis, user, and a query run started with the flag on
\* displays no other node and invokes callGemini not once.
C5_CacheHitShortCircuits ==
    /\ simulateRedisHit =>
          Nodes(getQuerySteps(selectedTenant, simulateRedisHit, enableFlare))
             = <<"user", "redis", "user">>
    /\ (runCount > 0 /\ runStart.mode = "query" /\ runStart.config.redisHit) =>
          /\ geminiCalls = 0
          /\ geminiPending = 0 \/ runCount > 1
          /\ \A i \in 1..Len(shown) : shown[i].node \in {"user", "redis"}
          /\ Running => activeNode \in {"user", "redis", Null} \cup ClickNodes

\* A query run with both flags on, stepped to its end.
C5_Witness ==
    /\ ~Running
    /\ activeFlow = "query"
    /\ runStart.config.redisHit
    /\ runStart.config.flare
    /\ nextCount = 3
    /\ Len(shown) = 3

Raised(step, k) == [step EXCEPT !.stepId = @ + k]

\* C6: with the cache-hit flag off, the list with active retrieval is the
\* plain list with three steps inserted: the steps (retriever, vector_db,
\* llm) directly after the first llm step (position 8), the stepIds of the
\* last two steps raised by 3, all steps before position 9 the same; both
\* lists start with user and end with postgres, user.
C6_FlareInsertsThreeSteps ==
    LET plain == getQuerySteps(selectedTenant, FALSE, FALSE)
        flare == getQuerySteps(selectedTenant, FALSE, TRUE)
        n == Len(plain)
    IN  /\ Len(flare) = n + 3
        /\ plain[9].node = "llm"
        /\ \A i \in 1..8 : plain[i].node # "llm"
        /\ SubSeq(flare, 1, 9) = SubSeq(plain, 1, 9)
        /\ Nodes(SubSeq(flare, 10, 12)) = <<"retriever", "vector_db", "llm">>
        /\ SubSeq(flare, 13, n + 3)
              = <<Raised(plain[n - 1], 3), Raised(plain[n], 3)>>
        /\ \A list \in {plain, flare} :
              /\ list[1].node = "user"
              /\ list[Len(list) - 1].node = "postgres"
              /\ list[Len(list)].node = "user"

\* A run with active retrieval displays the third inserted step.
C6_Witness ==
    /\ simulationMode = "query"
    /\ enableFlare
    /\ currentStepIndex = 11
    /\ Last(shown).log = "LLM: Resuming Generation"

\* C7: the configuration is frozen during a run.  While a simulation runs,
\* selectedTenant, simulateRedisHit, enableFlare and userQuery are what
\* startSimulation read, so the step list and the step count shown are
\* those of the start.
C7_ConfigFrozenDuringRun ==
    Running =>
        /\ Config = runStart.config
        /\ simulationMode = runStart.mode
        /\ stepsOf(simulationMode, selectedTenant, simulateRedisHit,
                   enableFlare) = RunSteps(runStart.mode, runStart.config)

\* A run under a configuration changed in all four controls, three steps in.
C7_Witness ==
    /\ Running
    /\ nextCount = 2
    /\ selectedTenant = "Cyberdyne"
    /\ userQuery = "How many sick days?"
    /\ simulateRedisHit
    /\ enableFlare

\* The log gains the one line at its head: the lines before move down by
\* one and the ninth drops out.
OneLineAdded(line) ==
    /\ Len(consoleLogs') = (IF Len(consoleLogs) < 9 THEN Len(consoleLogs) + 1
                            ELSE 9)
    /\ consoleLogs'[1] = line
    /\ \A i \in 2..Len(consoleLogs') : consoleLogs'[i] = consoleLogs[i - 1]

\* A video request ends in failure: it resolves to no URL, or throws.
VideoFails == VeoResolvesTo(Null) \/ VeoThrows

FailureLine ==
    IF VeoThrows
    THEN "> Error generating rerank video. Check API Key permissions."
    ELSE "> Failed to generate rerank video."

\* What the end of a failed video request does besides rerankVideoUrl: one
\* failure line, the generating flag off, no further request, the replay
\* state as it was.
FailureSurfaced ==
    /\ OneLineAdded(FailureLine)
    /\ isGeneratingRerankVideo' = FALSE
    /\ veoPending' = veoPending - 1
    /\ keyChecks' = keyChecks
    /\ UNCHANGED <<replayVars, activeFlow, configVars>>

\* C8 as stated: a failed video generation adds exactly one failure line,
\* leaves rerankVideoUrl null, sets isGeneratingRerankVideo back to false,
\* makes no second request and changes nothing of the replay state.
C8_FailureLeavesUrlNull ==
    [][VideoFails => FailureSurfaced /\ rerankVideoUrl' = Null]_vars

\* What of C8 the code does keep: a failed video generation adds exactly one
\* failure line, leaves rerankVideoUrl as it was, sets
\* isGeneratingRerankVideo back to false, makes no second request and
\* changes nothing of the replay state.
C8_FailureSurfacedOnce ==
    [][VideoFails => FailureSurfaced /\ rerankVideoUrl' = rerankVideoUrl]_vars

\* A request has failed while the run shows the re-ranking step.
C8_Witness ==
    /\ Len(consoleLogs) > 0
    /\ consoleLogs[1] \in
          {"> Failed to generate rerank video.",
           "> Error generating rerank video. Check API Key permissions."}
    /\ Running
    /\ currentStepIndex = 7
    /\ ~isGeneratingRerankVideo

\* The line a response of the text generation adds to the log.
GeminiLine(response) == "> [Real Gemini Response]: " \o response

\* C9: the text generation is fire-and-forget.  While a request is in flight
\* the replay goes on (Next Step and Reset stay available during the run,
\* the start buttons after it), and each response adds one
\* '[Real Gemini Response]' line at the head of the log and changes nothing
\* else, whatever the replay has done since the request.
C9_GeminiFireAndForget ==
    /\ [](geminiPending > 0 =>
            /\ Running => ENABLED <<NextStep>>_vars /\ ENABLED Reset
            /\ ~Running /\ runCount < MaxRuns =>
                  ENABLED StartSimulation(Modes))
    /\ [][GeminiResolves =>
            /\ \E response \in generateRAGResponse :
                  OneLineAdded(GeminiLine(response))
            /\ UNCHANGED <<activeNode, activeFlow, configVars, replayVars,
                           rerankVideoUrl, isGeneratingRerankVideo>>]_vars

\* A response has arrived in an ingestion run, which requested none.
C9_Witness ==
    /\ simulationMode = "ingestion"
    /\ Len(consoleLogs) > 0
    /\ \E response \in generateRAGResponse :
          consoleLogs[1] = GeminiLine(response)

LlmShown == Cardinality({i \in 1..Len(shown) : shown[i].node = "llm"})

\* The number of callGemini invocations the claim gives for a completed run.
ClaimedCalls(mode, c) ==
    IF mode = "ingestion" THEN 0
    ELSE IF c.redisHit THEN 0
    ELSE IF c.flare THEN 2
    ELSE 1

\* A run has been stepped to its completion (a reset clears activeFlow).
Completed == ~Running /\ activeFlow # Null

\* C11: the callGemini invocations of a run depend only on its
\* configuration.  The invocations so far are as many as the llm steps a
\* query run has shown (none in an ingestion run); each is made by the step
\* that shows the llm node, at position 8 or, with active retrieval, 11, and
\* sends one request; a completed run has made 0 (ingestion, cache hit), 1
\* (cache miss) or 2 (active retrieval) of them.
C11_GeminiCallsByConfiguration ==
    /\ [](runCount > 0 =>
            geminiCalls = (IF runStart.mode = "query" THEN LlmShown ELSE 0))
    /\ [](Completed =>
            geminiCalls = ClaimedCalls(runStart.mode, runStart.config))
    /\ [][geminiCalls' > geminiCalls =>
            /\ geminiCalls' = geminiCalls + 1
            /\ geminiPending' = geminiPending + 1
            /\ runStart.mode = "query"
            /\ activeNode' = "llm"
            /\ currentStepIndex' \in
                  (IF runStart.config.flare THEN {8, 11} ELSE {8})]_vars

\* A query run with active retrieval, completed after two invocations.
C11_Witness ==
    /\ Completed
    /\ runStart.mode = "query"
    /\ runStart.config.flare
    /\ nextCount = 14
    /\ geminiCalls = 2

\* What log makes of the log prev and the message msg, as the claim has it:
\* '> msg' first, the previous first 8 lines behind it in their order.
NewestFirst(prev, msg, next) ==
    /\ Len(next) = (IF Len(prev) < 8 THEN Len(prev) ELSE 8) + 1
    /\ next[1] = "> " \o msg
    /\ \A i \in 2..Len(next) : next[i] = prev[i - 1]

\* C12: the console log is a bounded newest-first buffer.  It never holds
\* more than 9 lines; log(msg) on it puts '> msg' first and keeps the
\* previous first 8 lines behind it; and every event that changes the log
\* either is a start, which rebuilds it, or adds one line at its head and
\* drops at most the oldest.
C12_LogBoundedNewestFirst ==
    /\ [](Len(consoleLogs) <= 9)
    /\ [](\A msg \in {"Reset.", "Simulation Complete."} :
            NewestFirst(consoleLogs, msg, log(consoleLogs, msg)))
    /\ [][consoleLogs' # consoleLogs =>
            \/ runCount' = runCount + 1
            \/ /\ OneLineAdded(consoleLogs'[1])
               /\ Len(consoleLogs) = 9 =>
                     SubSeq(consoleLogs', 2, 9) = SubSeq(consoleLogs, 1, 8)]_vars

\* Ten steps into a run the log is full: its oldest line is the line of
\* step 2, the lines of the start and of steps 0 and 1 have dropped out.
C12_Witness ==
    /\ Running
    /\ nextCount = 10
    /\ Len(consoleLogs) = 9
    /\ consoleLogs[9] = "> " \o shown[3].log
    /\ consoleLogs[1] = "> " \o shown[11].log

\* A step of startSimulation.
Starts == runCount' = runCount + 1

FlareLine == "> [CONFIG] FLARE Active Retrieval: ON"
RedisLine == "> [CONFIG] Redis Cache Hit Simulation: ON"

\* The log the claim gives for the state directly after startSimulation(mode)
\* under the configuration c, newest first.
StartLog(mode, c) ==
    <<"> " \o RunSteps(mode, c)[1].log>>
    \o (IF mode = "query" /\ c.flare THEN <<FlareLine>> ELSE << >>)
    \o (IF mode = "query" /\ c.redisHit THEN <<RedisLine>> ELSE << >>)
    \o <<"> Starting "
         \o (IF mode = "query" THEN "QUERY" ELSE "INGESTION")
         \o " pipeline simulation for " \o c.tenant \o "...">>

\* C13: startSimulation discards the previous log and rebuilds it in a fixed
\* order.  Directly after it the log reads, newest first: the line of step
\* 0, the FLARE [CONFIG] line if the mode is query and enableFlare, the Redis
\* [CONFIG] line if the mode is query and simulateRedisHit, the 'Starting
\* ...' line, and nothing else; after an ingestion start these are two lines,
\* none of them a [CONFIG] line.
C13_StartRebuildsLog ==
    [][Starts =>
         /\ consoleLogs' = StartLog(simulationMode', Config)
         /\ simulationMode' = "ingestion" =>
               /\ Len(consoleLogs') = 2
               /\ \A i \in 1..2 : consoleLogs'[i] \notin {FlareLine, RedisLine}]_vars

\* The state directly after the second start, a query start with both flags
\* on: four lines, and none of the run before.
C13_Witness ==
    /\ runCount = 2
    /\ simulationMode = "query"
    /\ nextCount = 0
    /\ simulateRedisHit
    /\ enableFlare
    /\ Len(consoleLogs) = 4
    /\ consoleLogs[2] = FlareLine
    /\ consoleLogs[3] = RedisLine

Lines(seq) == {seq[i] : i \in 1..Len(seq)}

\* The log lines of the three active-retrieval steps.
FlareStepLogs ==
    {"FLARE: Low Confidence Detected!", "FLARE: Targeted Retrieval",
     "LLM: Resuming Generation"}

\* The step list of a query run under the current configuration has the
\* three active-retrieval steps.
RunHasFlareSteps ==
    FlareStepLogs \subseteq
        {RunSteps("query", Config)[i].log :
            i \in 1..Len(RunSteps("query", Config))}

\* startSimulation('query') logs the FLARE [CONFIG] line.
LogsFlareLine ==
    Starts /\ simulationMode' = "query" /\ FlareLine \in Lines(consoleLogs')

\* C14 as stated: whenever startSimulation('query') logs '[CONFIG] FLARE
\* Active Retrieval: ON', the step list of that run contains the three
\* active-retrieval steps, for every reachable combination of the toggles.
C14_FlareLineMatchesRun == [][LogsFlareLine => RunHasFlareSteps]_vars

\* What of C14 the code does keep: with the cache-hit flag off, a query
\* start that logs the FLARE [CONFIG] line runs the three active-retrieval
\* steps.
C14_FlareLineMatchesMissRun ==
    [][LogsFlareLine /\ ~simulateRedisHit => RunHasFlareSteps]_vars

\* A query run started with both flags on: the FLARE [CONFIG] line is in the
\* log and the list is the three steps of the cache hit.
C14_Witness ==
    /\ simulationMode = "query"
    /\ nextCount = 0
    /\ FlareLine \in Lines(consoleLogs)
    /\ Len(RunSteps("query", runStart.config)) = 3
    /\ ~RunHasFlareSteps

\* C15: resetSimulation returns the replay to idle and touches nothing else.
\* It sets simulationMode, activeFlow, activeNode, animatingEdge,
\* inspectorData and rerankVideoUrl to null and currentStepIndex to -1, adds
\* the line 'Reset.' at the head of the log in front of the earlier lines,
\* and leaves selectedTenant, simulateRedisHit, enableFlare, userQuery and
\* isGeneratingRerankVideo as they are.
C15_ResetFrame ==
    [][Reset =>
         /\ simulationMode' = Null
         /\ activeFlow' = Null
         /\ activeNode' = Null
         /\ animatingEdge' = None
         /\ inspectorData' = None
         /\ rerankVideoUrl' = Null
         /\ currentStepIndex' = -1
         /\ OneLineAdded("> Reset.")
         /\ UNCHANGED <<selectedTenant, simulateRedisHit, enableFlare,
                        userQuery, isGeneratingRerankVideo>>]_vars

\* A reset during a video generation: the replay is idle, the earlier lines
\* are behind 'Reset.' and the generation still goes on.
C15_Witness ==
    /\ simulationMode = Null
    /\ activeFlow = Null
    /\ currentStepIndex = -1
    /\ Len(consoleLogs) > 2
    /\ consoleLogs[1] = "> Reset."
    /\ isGeneratingRerankVideo

\* The advanceStep call past the end of the list: the Next Step event that
\* brings the events of the run to the length of its list.
PastTheEnd ==
    /\ Running
    /\ nextCount' = nextCount + 1
    /\ nextCount' = Len(RunSteps(runStart.mode, runStart.config))

\* C16: completion changes only the running flag, the edge and the log.  The
\* advanceStep call past the end of a list of n steps sets simulationMode and
\* animatingEdge to null and logs 'Simulation Complete.', and leaves
\* currentStepIndex (n - 1), activeNode, activeFlow and inspectorData as the
\* last step set them; a completed run keeps activeFlow at its mode.
C16_CompletionFrame ==
    /\ [][PastTheEnd =>
            /\ simulationMode' = Null
            /\ animatingEdge' = None
            /\ OneLineAdded("> Simulation Complete.")
            /\ currentStepIndex = nextCount
            /\ UNCHANGED <<currentStepIndex, activeNode, activeFlow,
                           inspectorData, rerankVideoUrl,
                           isGeneratingRerankVideo, configVars>>]_vars
    /\ [](~Running /\ runCount > 0 /\ nextCount > 0
             /\ nextCount = Len(RunSteps(runStart.mode, runStart.config)) =>
            /\ activeFlow = runStart.mode
            /\ currentStepIndex = nextCount - 1)

\* An ingestion run completed: the last step's node, index and payload are
\* still shown, and activeFlow is still ingestion.
C16_Witness ==
    /\ ~Running
    /\ nextCount = 5
    /\ activeFlow = "ingestion"
    /\ currentStepIndex = 4
    /\ activeNode = "vector_db"
    /\ inspectorData # None
    /\ animatingEdge = None
    /\ consoleLogs[1] = "> Simulation Complete."

\* C17: Next Step outside a run is a no-op.  With simulationMode null
\* handleNextStep returns the state as it is, adding no log line, making no
\* callGemini invocation; and 'Simulation Complete.' enters the log only by
\* the step that ends a run, once per completed run.
C17_NextStepIdleNoOp ==
    /\ [](~Running =>
            handleNextStep(Config, State(shown)) = State(shown))
    /\ [][~Running /\ NextStep => UNCHANGED vars]_vars
    /\ [][consoleLogs' # consoleLogs
             /\ consoleLogs'[1] = "> Simulation Complete." => PastTheEnd]_vars

\* After the completion of a run: handleNextStep has the index of the last
\* step and a null mode before it.
C17_Witness ==
    /\ ~Running
    /\ activeFlow = "query"
    /\ currentStepIndex = 10
    /\ nextCount = 11
    /\ consoleLogs[1] = "> Simulation Complete."
    /\ handleNextStep(Config, State(shown)).consoleLogs = consoleLogs

\* The ids of the diagram's nodes.
NodeIds == {NODES[i].id : i \in DOMAIN NODES}

\* Some entry of EDGES is drawn with the moving packet for the edge animating.
PacketShown(animating) ==
    \E i \in DOMAIN EDGES : isAnimating(EDGES[i], animating)

\* The step lists of the two modes under the current configuration.
CurrentLists ==
    {stepsOf(mode, selectedTenant, simulateRedisHit, enableFlare) :
        mode \in Modes}

\* C18 as stated: every animated step edge is an edge of the diagram.  For
\* every configuration and every step that has an edge, the edge is the
\* (from, to) of some entry of EDGES, so that PipelineVisualizer shows the
\* moving packet for the animatingEdge of every step of a run; and every
\* step's node is the id of an entry of NODES.
C18_StepEdgesInDiagram ==
    /\ \A steps \in CurrentLists : \A i \in 1..Len(steps) :
          /\ steps[i].edge # None => PacketShown(steps[i].edge)
          /\ steps[i].node \in NodeIds
    /\ animatingEdge # None => PacketShown(animatingEdge)

\* What of C18 the code does keep: every step's node is the id of an entry
\* of NODES, and every step edge other than redis -> user (the cache-hit
\* step) and vector_db -> llm (the last active-retrieval step) is an edge of
\* the diagram.
C18_StepNodesInDiagram ==
    /\ \A steps \in CurrentLists : \A i \in 1..Len(steps) :
          /\ steps[i].node \in NodeIds
          /\ steps[i].edge \notin {None, Edge("redis", "user"),
                                   Edge("vector_db", "llm")} =>
                PacketShown(steps[i].edge)
    /\ animatingEdge \notin {None, Edge("redis", "user"),
                             Edge("vector_db", "llm")} =>
          PacketShown(animatingEdge)

\* The run shows the step 'LLM: Resuming Generation': its edge is animating
\* and no entry of EDGES has its endpoints.
C18_Witness ==
    /\ Running
    /\ currentStepIndex = 11
    /\ animatingEdge = Edge("vector_db", "llm")
    /\ ~PacketShown(animatingEdge)

\* C19: dragging moves only the dragged node and keeps the diagram
\* intact.  A step that changes nodes happens during a drag and changes the
\* x and y of the node whose id is dragging.id, no other node, no id, not
\* dragging and nothing of the App state; the nodes are always those of
\* NODES, as many and with the same ids, so both endpoints of every entry of
\* EDGES are found among them; and with no drag active (before a mousedown,
\* after a mouseup or mouseleave) no step changes nodes.
C19_DragMovesOneNode ==
    /\ [][nodes' # nodes =>
            /\ dragging # None
            /\ \A i \in DOMAIN nodes :
                  /\ nodes[i].id # dragging[1].id => nodes'[i] = nodes[i]
                  /\ nodes'[i].id = nodes[i].id
            /\ \E i \in DOMAIN nodes :
                  nodes[i].id = dragging[1].id /\ nodes'[i] # nodes[i]
            /\ UNCHANGED <<appVars, dragging>>]_vars
    /\ [](/\ Len(nodes) = Len(NODES)
          /\ \A i \in DOMAIN NODES : nodes[i].id = NODES[i].id
          /\ \A i \in DOMAIN EDGES :
                find(nodes, EDGES[i][1]) # {} /\ find(nodes, EDGES[i][2]) # {})
    /\ [][dragging = None => nodes' = nodes]_vars

\* The llm node has been dragged to the lower right corner and released;
\* every other node is in its place.
C19_Witness ==
    /\ dragging = None
    /\ isDraggingRef
    /\ nodes[13] = Node("llm", 1140, 440)
    /\ \A i \in 1..12 : nodes[i] = NODES[i]

====
